---- MODULE Spec2Model ----
(***************************************************************************)
(* The realtime layer of the collaborative-coding client:                  *)
(*   - SocketService (src/src/services/socket.js): the module-level        *)
(*     singleton that owns the transport socket, the custom-event          *)
(*     registry and the outbound messages;                                 *)
(*   - useSocket (src/src/hooks/useSocket.js): the hook instances that     *)
(*     share the singleton and mirror its events in connectionStatus;      *)
(*   - the transport (socket.io-client, configured at socket.js:23-30):    *)
(*     its per-socket listener arrays, its connection life cycle and its   *)
(*     bounded reconnection;                                               *)
(*   - useSessionSocket (src/src/hooks/useSocket.js): the join/leave       *)
(*     effect of the session page and the listeners that keep the code,    *)
(*     the roster, the typing flags and the execution slot;                *)
(*   - CodeEditor (src/src/components/Session/CodeEditor.js): the editor   *)
(*     widget and the callback that applies remote changes to it.          *)
(***************************************************************************)
EXTENDS Naturals, Integers, Sequences, FiniteSets, TLC

(* ------------------------------ bounds --------------------------------- *)
\* sockets io() may create in one behaviour
MaxSockets == 2
\* registrations kept in the transport listener arrays, all sockets together
MaxReg == 3
\* outbound messages recorded per connection
MaxOut == 2
\* connect_error events counted by the service
MaxErrors == 6

(* ------------------------- program constants --------------------------- *)
maxReconnectAttempts == 5

Hooks == {"h1", "h2"}
ClientCallbacks == {"cb1", "cb2"}
AppEvents == {"code-change", "chat-message"}
CustomEvents == {"custom:connected", "custom:disconnected", "custom:reconnected",
                 "custom:connect_error", "custom:auth-success", "custom:auth-error"}
Events == AppEvents \cup CustomEvents
Callbacks == ClientCallbacks \cup Hooks
Reasons == {"io server disconnect", "transport close"}
Sockets == 1..MaxSockets
NoSocket == 0

VARIABLES
  svc,     \* the SocketService singleton and the sockets io() has created
  hooks,   \* the useSocket hook instances
  pend,    \* what a dispatch still has to report: the last dispatch's delivery
  last,    \* the operation the last step performed
  ses,     \* the useSessionSocket instance of the session page: its membership
  wire,    \* the session messages sent so far, with the session id they carry
  room,    \* what useSessionSocket keeps of the session's events
  ed,      \* the CodeEditor component and its editor widget
  chat     \* the ChatWindow component of the session page

\* the session page
page == <<ses, wire, room, ed, chat>>

vars == <<svc, hooks, pend, last, ses, wire, room, ed, chat>>

(* ------------------------------ helpers -------------------------------- *)
RECURSIVE Occ(_, _)
Occ(seq, x) ==
  IF seq = <<>> THEN 0
  ELSE (IF Head(seq) = x THEN 1 ELSE 0) + Occ(Tail(seq), x)

RECURSIVE RemoveFirst(_, _)
RemoveFirst(seq, x) ==
  IF seq = <<>> THEN <<>>
  ELSE IF Head(seq) = x THEN Tail(seq)
  ELSE <<Head(seq)>> \o RemoveFirst(Tail(seq), x)

\* the prefix of a listener array that a transport dispatch runs: the
\* array in order, up to and including the first callback that throws
RECURSIVE RunUntilThrow(_, _)
RunUntilThrow(seq, T) ==
  IF seq = <<>> THEN <<>>
  ELSE IF Head(seq) \in T THEN <<Head(seq)>>
  ELSE <<Head(seq)>> \o RunUntilThrow(Tail(seq), T)

(* ------------------------------ transport ------------------------------ *)
\* a socket io() has not created yet
NoSock == [st |-> "none", attempts |-> 0,
           lst |-> [e \in AppEvents |-> <<>>], out |-> <<>>, closes |-> 0]

\* io(serverUrl, {forceNew: true, reconnection: true, reconnectionAttempts: 5}):
\* a fresh socket whose manager starts opening at once
io == [NoSock EXCEPT !.st = "connecting"]

\* Socket.connect(): nothing on a connected socket or on one whose manager is
\* already opening; a socket that was closed by the server or that gave up
\* starts opening again
sockConnect(k) ==
  IF k.st \in {"disconnected", "failed"}
  THEN [k EXCEPT !.st = "connecting", !.attempts = 0]
  ELSE k

\* Socket.disconnect(): closes the transport; a closed socket delivers nothing
sockDisconnect(k) ==
  [NoSock EXCEPT !.st = "closed", !.closes = k.closes + 1]

\* a failed open: the manager retries while its backoff has attempts left
\* (reconnectionAttempts: this.maxReconnectAttempts), then gives up
sockOpenFailed(k) ==
  IF k.attempts < maxReconnectAttempts
  THEN [k EXCEPT !.attempts = @ + 1]
  ELSE [k EXCEPT !.st = "failed", !.attempts = 0]

\* the open succeeded: a new connection, nothing sent on it yet
sockOpened(k) == [k EXCEPT !.st = "connected", !.attempts = 0, !.out = <<>>]

\* the connection is lost: after a server-initiated close the transport
\* schedules no retry; after a network drop the manager reconnects by itself
sockClosed(k, reason) ==
  IF reason = "io server disconnect"
  THEN [k EXCEPT !.st = "disconnected", !.attempts = 0]
  ELSE [k EXCEPT !.st = "connecting", !.attempts = 1]

(* ----------------------------- SocketService --------------------------- *)
NoListeners == [e \in Events |-> {}]

\* constructor()
SocketService ==
  [socket |-> NoSocket, isConnected |-> FALSE, reconnectAttempts |-> 0,
   eventListeners |-> NoListeners,
   nsock |-> 0, io |-> [s \in Sockets |-> NoSock]]

\* this.socket?.connected
Connected(S) == S.socket # NoSocket /\ S.io[S.socket].st = "connected"

\* connect(user)
connect(S) ==
  IF Connected(S) THEN S
  ELSE [S EXCEPT !.nsock = @ + 1, !.socket = S.nsock + 1,
                 !.io[S.nsock + 1] = io]

\* this.socket.emit(type, ...): one outbound message on the current socket
send(S, m) == [S EXCEPT !.io[S.socket].out = Append(@, m)]

\* authenticate(user)
authenticate(S) == IF Connected(S) THEN send(S, "authenticate") ELSE S

\* joinSession that looks only at whether the service holds a socket
joinSessionOnAnySocket(S) ==
  IF S.socket # NoSocket THEN send(S, "join-session") ELSE S

\* joinSession(sessionId, user)
joinSession(S) == IF Connected(S) THEN send(S, "join-session") ELSE S

\* leaveSession that looks only at whether the service holds a socket
leaveSessionOnAnySocket(S) ==
  IF S.socket # NoSocket THEN send(S, "leave-session") ELSE S

\* leaveSession(sessionId)
leaveSession(S) == IF Connected(S) THEN send(S, "leave-session") ELSE S

\* sendCodeChange(sessionId, code, operation) on the service's socket
emitCodeChange(S) == IF Connected(S) THEN send(S, "code-change") ELSE S

\* sendCursorPosition(sessionId, position)
sendCursorPosition(S) == IF Connected(S) THEN send(S, "cursor-position") ELSE S

\* executeCode(sessionId, code, language, input)
executeCode(S) == IF Connected(S) THEN send(S, "execute-code") ELSE S

\* sendChatMessage(sessionId, message)
sendChatMessage(S) == IF Connected(S) THEN send(S, "chat-message") ELSE S

\* the senders of the service that return nothing
Senders == {"authenticate", "leave-session", "code-change", "cursor-position",
            "execute-code", "chat-message"}

\* the service after a call of the sender of message m
sender(S, m) ==
  CASE m = "authenticate"    -> authenticate(S)
    [] m = "leave-session"   -> leaveSession(S)
    [] m = "code-change"     -> emitCodeChange(S)
    [] m = "cursor-position" -> sendCursorPosition(S)
    [] m = "execute-code"    -> executeCode(S)
    [] m = "chat-message"    -> sendChatMessage(S)

\* on(eventName, callback): socket.on pushes onto the current socket's listener
\* array, the Set of the registry takes the callback once.  (The transport
\* never delivers a custom:* event, so its arrays for them are not kept.)
on(S, e, cb) ==
  IF S.socket = NoSocket THEN S
  ELSE [S EXCEPT
          !.io[S.socket].lst =
              IF e \in AppEvents THEN [@ EXCEPT ![e] = Append(@, cb)] ELSE @,
          !.eventListeners[e] = @ \cup {cb}]

\* off as a teardown of the whole event would do it (removeAllListeners)
offWholeEvent(S, e, cb) ==
  IF S.socket = NoSocket THEN S
  ELSE [S EXCEPT
          !.io[S.socket].lst =
              IF e \in AppEvents THEN [@ EXCEPT ![e] = <<>>] ELSE @,
          !.eventListeners[e] = {}]

\* off(eventName, callback): socket.off removes the first matching entry of the
\* current socket's array, the Set drops the callback
off(S, e, cb) ==
  IF S.socket = NoSocket THEN S
  ELSE [S EXCEPT
          !.io[S.socket].lst =
              IF e \in AppEvents THEN [@ EXCEPT ![e] = RemoveFirst(@, cb)] ELSE @,
          !.eventListeners[e] = @ \ {cb}]

\* removeAllListeners that tears every event down
removeAllListenersOfAllEvents(S, e) ==
  IF S.socket = NoSocket THEN S
  ELSE [S EXCEPT !.io[S.socket].lst = [x \in AppEvents |-> <<>>],
                 !.eventListeners = NoListeners]

\* removeAllListeners(eventName): nothing without a socket; else
\* socket.removeAllListeners(eventName) empties the current socket's array
\* of the event and the registry entry of the event is deleted
removeAllListeners(S, e) ==
  IF S.socket = NoSocket THEN S
  ELSE [S EXCEPT
          !.io[S.socket].lst =
              IF e \in AppEvents THEN [@ EXCEPT ![e] = <<>>] ELSE @,
          !.eventListeners[e] = {}]

\* disconnect() that forgets to drop the socket it closed
disconnectKeepsSocket(S) ==
  IF S.socket # NoSocket
  THEN [S EXCEPT !.eventListeners = NoListeners,
                 !.io[S.socket] = sockDisconnect(@),
                 !.isConnected = FALSE]
  ELSE S

\* disconnect(): socket.disconnect() on a connected socket runs the
\* 'disconnect' handler at once (reason 'io client disconnect'), which finds
\* the registry already cleared and reconnects nothing
disconnect(S) ==
  IF S.socket # NoSocket
  THEN [S EXCEPT !.eventListeners = NoListeners,
                 !.io[S.socket] = sockDisconnect(@),
                 !.socket = NoSocket,
                 !.isConnected = FALSE]
  ELSE S

(* ------------------- setupEventListeners(user) handlers ---------------- *)
\* Each takes the service after the transport changed socket s and gives the
\* service after the handler body; the custom event the body emits is
\* delivered by the action that uses it.

\* 'connect': the body reads this.socket.id first, a TypeError when the
\* service holds no socket (the handler of a socket the service dropped)
onConnect(S, s) ==
  IF S.socket = NoSocket THEN S
  ELSE authenticate([S EXCEPT !.isConnected = TRUE, !.reconnectAttempts = 0])

\* 'disconnect': the reconnect is this.socket.connect(), on whatever socket
\* the service holds now (a TypeError after the emit when it holds none)
onDisconnect(S, s, reason) ==
  LET S1 == [S EXCEPT !.isConnected = FALSE]
  IN IF reason = "io server disconnect" /\ S1.socket # NoSocket
     THEN [S1 EXCEPT !.io[S1.socket] = sockConnect(@)]
     ELSE S1

\* 'connect_error'
onConnectError(S, s) == [S EXCEPT !.reconnectAttempts = @ + 1]

\* 'auth-error': a toast and the custom event, no state of the service
onAuthError(S, s) == S

(* -------------------------------- useSocket ---------------------------- *)
\* useState('disconnected'), useRef(null), no reconnect timer
NoHook == [mounted |-> FALSE, socketRef |-> NoSocket,
           status |-> "disconnected", timer |-> FALSE]

\* what the listeners of setupConnectionListeners do with a custom event
StatusOn(e, old) ==
  CASE e = "custom:connected"     -> "connected"
    [] e = "custom:disconnected"  -> "disconnected"
    [] e = "custom:reconnected"   -> "connected"
    [] e = "custom:connect_error" -> "error"
    [] e = "custom:auth-error"    -> "auth-error"
    [] OTHER                      -> old

\* SocketService.emit(eventName, data) as the hooks see it: every hook
\* listener in the registry's Set for e runs once (a state update of an
\* unmounted instance is dropped by React)
emit(S, H, e) ==
  [h \in Hooks |->
     IF h \in S.eventListeners[e] /\ H[h].mounted
     THEN [H[h] EXCEPT !.status = StatusOn(e, @)]
     ELSE H[h]]

\* setupConnectionListeners(): six socketService.on calls with the hook's
\* listeners (fresh closures of instance h, named by h)
RECURSIVE onAll(_, _, _)
onAll(S, es, h) ==
  IF es = {} THEN S
  ELSE LET e == CHOOSE x \in es : TRUE
       IN onAll(on(S, e, h), es \ {e}, h)

setupConnectionListeners(S, ref, h) ==
  IF ref = NoSocket THEN S ELSE onAll(S, CustomEvents, h)

\* connectSocket(): the service after socketService.connect(user) and the
\* listener setup of instance h
connectSocket(S, h) ==
  LET S1 == connect(S) IN setupConnectionListeners(S1, S1.socket, h)

\* the hook instance after connectSocket()
connectedHook(S, hk) ==
  [hk EXCEPT !.status = "connecting", !.socketRef = connect(S).socket]

\* disconnectSocket(): the service and the hook instance after it
disconnectSocketSvc(S, hk) ==
  IF hk.socketRef # NoSocket THEN disconnect(S) ELSE S

disconnectSocketHook(hk) ==
  IF hk.socketRef # NoSocket
  THEN [hk EXCEPT !.socketRef = NoSocket, !.status = "disconnected"]
  ELSE hk

(* ---------------------------- useSessionSocket -------------------------- *)
\* session messages on the wire (and, with the handshake, on one connection)
\* before a step sends more
MaxWire == 2

SessionIds == {"A", "B"}
NoSession == ""
\* the session id of the route the page is opened with
FirstSession == "A"
\* the useSocket() instance inside useSessionSocket
SessionHook == "h1"

\* socket.emit('join-session', {sessionId, ...}) / socket.emit('leave-session',
\* sessionId) as the server receives it
Msg(t, id) == [type |-> t, sessionId |-> id]

\* before the page mounts: no session id, the join effect has not run
NoSes == [mounted |-> FALSE, sessionId |-> NoSession,
          deps |-> <<NoSession, FALSE>>]

\* useSocket's isConnected
isConnected(hk) == hk.status = "connected"

\* useSocket's joinSession(sessionId): the service after it, and what it returns
useJoinSession(S, hk) ==
  IF hk.socketRef = NoSocket THEN S ELSE joinSession(S)

joinSessionReturns(S, hk) ==
  IF hk.socketRef = NoSocket THEN FALSE ELSE Connected(S)

\* useSocket's leaveSession(sessionId)
useLeaveSession(S, hk) ==
  IF hk.socketRef # NoSocket THEN leaveSession(S) ELSE S

\* the wire after a call that took the service from S to S2: the message went
\* out when the call emitted on the socket
onWire(w, S, S2, m) == IF S2 # S THEN Append(w, m) ELSE w

\* the join/leave effect of useSessionSocket after a render, dependencies
\* [sessionId, socket.isConnected]: when one has changed, the cleanup of the
\* last run (leave of the id it ran with), then the effect (join when
\* connected).  Gives the service, the instance and the wire after it.
joinEffect(S, hk, s, w) ==
  LET deps == <<s.sessionId, isConnected(hk)>>
      S1 == IF s.deps[1] # NoSession THEN useLeaveSession(S, hk) ELSE S
      w1 == onWire(w, S, S1, Msg("leave-session", s.deps[1]))
      S2 == IF deps[1] # NoSession /\ deps[2] THEN useJoinSession(S1, hk) ELSE S1
      w2 == onWire(w1, S1, S2, Msg("join-session", deps[1]))
  IN IF ~s.mounted \/ deps = s.deps
     THEN [svc |-> S, ses |-> s, wire |-> w]
     ELSE [svc |-> S2, ses |-> [s EXCEPT !.deps = deps], wire |-> w2]

(* ------------------ session events: the document buffer ---------------- *)
Codes == {"x=1", "x=2", "y=3"}
NoCode == ""
\* getLanguageTemplate(language)
Template == "// Welcome to CodeCollab"
Origins == {"self", "other"}

\* participants the roster holds before a 'user-joined' adds one
MaxRoster == 3

\* the connection ids (socketId) and user names the server speaks of
ConnIds == {"c1", "c2", "c3"}
Users == {"alice", "bob"}
Outputs == {"5", "7"}
Failures == {"timeout"}
Null == "null"
Undefined == "undefined"

\* cursor positions and colours of the 'cursor-update' payload, and the
\* payload's timestamps
Positions == {1, 2}
Colors == {"red", "blue"}
Timestamps == {1, 2}
\* a key the cursors Map does not hold
NoCursor == [username |-> "", position |-> 0, color |-> ""]

\* the ids of the chat messages the server relays (a message is kept as its
\* id; the server stamps the messages in the order of their ids)
MsgIds == {1, 2, 3}
\* the most messages the chat log holds before a 'chat-message' arrives
MaxChat == 4

\* useState({isRunning: false, result: null, error: null})
NoExecution == [isRunning |-> FALSE, result |-> Null, error |-> Null,
                executedBy |-> Undefined]

\* useSessionSocket's useState values, and whether its listener effect has
\* its listeners registered.  (A participant is kept as its socketId.
\* expired: the users whose typing timeout window has passed since the last
\* 'typing-status-update' about them.)
NoRoom == [listening |-> FALSE, sessionId |-> FirstSession,
           codeState |-> NoCode,
           participants |-> <<>>, typingUsers |-> {}, expired |-> {},
           executionState |-> NoExecution,
           cursors |-> [c \in ConnIds |-> NoCursor],
           chatMessages |-> <<>>]

\* socket.emit('code-change', {sessionId, code, operation, timestamp}) as the
\* server receives it (echoed: the server's echo of it has come back)
CodeMsg(id, code) ==
  [type |-> "code-change", sessionId |-> id, code |-> code, echoed |-> FALSE]

\* no debounce timer armed (debounceTimeoutRef), else the session id and the
\* code the timer's callback will send
NoTimer == [sessionId |-> NoSession, code |-> NoCode]

\* what the content handler's closure holds of the render in which the
\* widget mounted: the editor hook's isConnected, the page's isConnected (in
\* its handleCodeChange) and the sessionId of both hooks' senders
NoSender == [editor |-> FALSE, page |-> FALSE, sessionId |-> NoSession]

\* the CodeEditor before it is rendered: no widget (editorRef.current null),
\* code '', suppressNextChangeRef false, no listeners of useCodeEditorSocket
\* (listening: its hook reports connected and its listener effect has run)
NoEditor == [mounted |-> FALSE, listening |-> FALSE, ready |-> FALSE,
             content |-> NoCode, code |-> NoCode, suppressNextChange |-> FALSE,
             debounce |-> NoTimer, sender |-> NoSender]

\* SocketService.sendCodeChange: the wire after it (up: this.socket?.connected)
sendCodeChange(w, up, id, code) ==
  IF up THEN Append(w, CodeMsg(id, code)) ELSE w

\* useCodeEditorSocket's sendCodeChange that arms a timer only when none is
\* pending (the first call of a burst wins)
sendCodeChangeKeepsFirst(e, connected, id, code) ==
  IF ~connected \/ id = NoSession \/ e.debounce # NoTimer THEN e
  ELSE [e EXCEPT !.debounce = [sessionId |-> id, code |-> code]]

\* useCodeEditorSocket's sendCodeChange(code, operation) of a render in which
\* the hook reported connected and had sessionId id: the pending timer is
\* cleared and a new one armed
sendCodeChangeDebounced(e, connected, id, code) ==
  IF ~connected \/ id = NoSession THEN e
  ELSE [e EXCEPT !.debounce = [sessionId |-> id, code |-> code]]

\* editor.onDidChangeModelContent handler: nothing while the guard is set,
\* else the widget's text becomes the component's code and goes to the
\* debounced sender the closure holds (readOnly false)
onDidChangeModelContent(e) ==
  IF e.suppressNextChange THEN e
  ELSE sendCodeChangeDebounced([e EXCEPT !.code = e.content],
                               e.sender.editor, e.sender.sessionId, e.content)

\* the end of the same handler, onCodeChange?.(newCode): the page's
\* handleCodeChange the closure holds sends the text at once when the page
\* was connected.  The wire after the handler ran in editor e.
handleCodeChange(w, e, up) ==
  IF e.suppressNextChange \/ ~e.sender.page THEN w
  ELSE sendCodeChange(w, up, e.sender.sessionId, e.content)

\* editor.setValue(v): the widget's text changes and the content handler runs
setValue(e, v) == onDidChangeModelContent([e EXCEPT !.content = v])

\* the callback with the guard as its only test
onCodeChangeFromAnyone(e, newCode, from) ==
  IF e.ready /\ ~e.suppressNextChange
  THEN [[setValue([e EXCEPT !.suppressNextChange = TRUE], newCode)
            EXCEPT !.code = newCode]
            EXCEPT !.suppressNextChange = FALSE]
  ELSE e

\* the callback CodeEditor gives useCodeEditorSocket
onCodeChange(e, newCode, from) ==
  IF from # "self" /\ e.ready /\ ~e.suppressNextChange
  THEN [[setValue([e EXCEPT !.suppressNextChange = TRUE], newCode)
            EXCEPT !.code = newCode]
            EXCEPT !.suppressNextChange = FALSE]
  ELSE e

\* the template effect of CodeEditor, run after a render changed code: with a
\* widget and an empty code the template becomes the widget's text, outside
\* the guard, so the content handler runs
templateEffect(e) ==
  IF e.ready /\ e.code = NoCode THEN setValue(e, Template) ELSE e

\* the wire after the effects of a render of editor e
templateEffectSends(w, e, up) ==
  IF e.ready /\ e.code = NoCode
  THEN handleCodeChange(w, templateEffect(e), up) ELSE w

\* the editor hook's 'code-change' and 'code-sync' listeners: the callback
\* of CodeEditor, then the render it asks for
editorOnCode(e, c, from) == templateEffect(onCodeChange(e, c, from))

\* handleEditorDidMount of the render in which the editor hook's isConnected
\* is editor, the page's is pg and the session id is id: the widget exists,
\* the content handler is registered and the widget is given the template
handleEditorDidMount(e, editor, pg, id) ==
  setValue([e EXCEPT !.ready = TRUE,
                     !.sender = [editor |-> editor, page |-> pg,
                                 sessionId |-> id]], Template)

\* the debounce timer's callback: socket.sendCodeChange(sessionId, code, ...)
debounceTimeout(w, e, up) ==
  sendCodeChange(w, up, e.debounce.sessionId, e.debounce.code)

\* the cleanup of useCodeEditorSocket's listener effect: the listeners are
\* removed and the debounce timer is cleared
editorCleanup(e) == [e EXCEPT !.listening = FALSE, !.debounce = NoTimer]

\* useSessionSocket's 'code-sync' and 'code-change' listeners
setCodeState(r, code) == [r EXCEPT !.codeState = code]

(* ------------- session events: roster, typing, execution --------------- *)
RECURSIVE SelectSeqNot(_, _)
\* prev.filter(p => p.socketId !== socketId)
SelectSeqNot(seq, x) ==
  IF seq = <<>> THEN <<>>
  ELSE IF Head(seq) = x THEN SelectSeqNot(Tail(seq), x)
  ELSE <<Head(seq)>> \o SelectSeqNot(Tail(seq), x)

\* the rosters the server sends in 'session-participants': no connection twice
Rosters ==
  {<<>>} \cup {<<c>> : c \in ConnIds}
         \cup {<<p[1], p[2]>> : p \in {q \in ConnIds \X ConnIds : q[1] # q[2]}}

\* 'session-participants' listener
sessionParticipants(r, list) == [r EXCEPT !.participants = list]

\* 'user-joined' listener: [...prev, data.user]
userJoined(r, c) == [r EXCEPT !.participants = Append(@, c)]

\* 'user-left' that drops one entry only
userLeftFirstOnly(r, c) == [r EXCEPT !.participants = RemoveFirst(@, c)]

\* 'user-left' listener
userLeft(r, c) == [r EXCEPT !.participants = SelectSeqNot(@, c)]

\* 'cursor-update' that keeps the entry of the newest timestamp: here the
\* entry a connection already has
cursorUpdateKeepsFirst(r, data) ==
  [r EXCEPT !.cursors[data.socketId] =
      IF @ # NoCursor THEN @
      ELSE [username |-> data.username, position |-> data.position,
            color |-> data.color]]

\* 'cursor-update' listener: newCursors.set(data.socketId, {...}); the
\* payload's timestamp is not read
cursorUpdate(r, data) ==
  [r EXCEPT !.cursors[data.socketId] =
      [username |-> data.username, position |-> data.position,
       color |-> data.color]]

\* 'chat-message' listener: [...prev, message]
chatMessage(r, id) == [r EXCEPT !.chatMessages = Append(@, id)]

\* clearChat of the session hook: setChatMessages([])
clearChat(r) == [r EXCEPT !.chatMessages = <<>>]

\* 'typing-status-update' listener (the event starts a new timeout window)
typingStatusUpdate(r, u, isTyping) ==
  [r EXCEPT !.typingUsers = IF isTyping THEN @ \cup {u} ELSE @ \ {u},
            !.expired = @ \ {u}]

\* 'execution-started' that only flips the running flag
executionStartedKeepsResult(r, u) ==
  [r EXCEPT !.executionState =
      [@ EXCEPT !.isRunning = TRUE, !.executedBy = u]]

\* 'execution-started' listener
executionStarted(r, u) ==
  [r EXCEPT !.executionState =
      [isRunning |-> TRUE, result |-> Null, error |-> Null, executedBy |-> u]]

\* 'execution-result' listener
executionResult(r, res, u) ==
  [r EXCEPT !.executionState =
      [isRunning |-> FALSE, result |-> res, error |-> Null, executedBy |-> u]]

\* 'execution-error' that only records the error
executionErrorKeepsResult(r, err) ==
  [r EXCEPT !.executionState =
      [@ EXCEPT !.isRunning = FALSE, !.error = err]]

\* 'execution-error' listener: the new slot has no executedBy
executionError(r, err) ==
  [r EXCEPT !.executionState =
      [isRunning |-> FALSE, result |-> Null, error |-> err,
       executedBy |-> Undefined]]

\* the route's sessionId changes to id: the listener effect of
\* useSessionSocket (dependencies [isConnected, sessionId, ...]) cleans up and
\* runs again, which leaves the listeners registered when the hook is
\* connected; the hook's useState values are kept
setSessionId(r, id) == [r EXCEPT !.sessionId = id]

\* the same change in useCodeEditorSocket: its effect's cleanup clears the
\* debounce timer, and the effect registers the listeners again
editorSetSessionId(e) == [e EXCEPT !.debounce = NoTimer]

\* events of a session, as the server sends them to its members: one of the
\* code, cursor, typing and execution events each
SessionEvents ==
  {[type |-> "code-change", code |-> "y=3", from |-> "other"],
   [type |-> "cursor-update",
    data |-> [socketId |-> "c2", username |-> "bob", position |-> 2,
              color |-> "blue", timestamp |-> 1]],
   [type |-> "typing-status-update", username |-> "bob"],
   [type |-> "execution-started", username |-> "bob"]}

\* the listener of useSessionSocket registered for the event's type runs
deliver(r, ev) ==
  CASE ev.type = "code-change" -> setCodeState(r, ev.code)
    [] ev.type = "cursor-update" -> cursorUpdate(r, ev.data)
    [] ev.type = "typing-status-update" -> typingStatusUpdate(r, ev.username, TRUE)
    [] ev.type = "execution-started" -> executionStarted(r, ev.username)

(* ----------------------------- ChatWindow ------------------------------ *)
\* the ChatWindow before it is rendered (showChat false)
NoChat == [mounted |-> FALSE, messageHistory |-> <<>>]

\* new Date(message.timestamp) of a message
Timestamp(id) == id

RECURSIVE Insert(_, _)
\* seq, sorted by timestamp, with message x after the messages that are
\* not newer than it (Array.prototype.sort is stable)
Insert(seq, x) ==
  IF seq = <<>> THEN <<x>>
  ELSE IF Timestamp(Head(seq)) <= Timestamp(x)
       THEN <<Head(seq)>> \o Insert(Tail(seq), x)
       ELSE <<x>> \o seq

RECURSIVE SortByTimestamp(_)
\* seq.sort((a, b) => new Date(a.timestamp) - new Date(b.timestamp))
SortByTimestamp(seq) ==
  IF seq = <<>> THEN <<>>
  ELSE Insert(SortByTimestamp(SubSeq(seq, 1, Len(seq) - 1)), seq[Len(seq)])

\* the list the window renders: [...messageHistory, ...messages], sorted
allMessages(c, messages) == SortByTimestamp(c.messageHistory \o messages)

\* the message history effect, run until it changes nothing: the messages
\* whose id the history does not hold are appended to the history
historyEffect(c, messages) ==
  [c EXCEPT !.messageHistory =
      @ \o SelectSeq(messages, LAMBDA msg : Occ(c.messageHistory, msg) = 0)]

(* ------------------------------ dispatch -------------------------------- *)
NoPend == [kind |-> "none", sock |-> NoSocket, ev |-> "", reg |-> {},
           count |-> [cb \in ClientCallbacks |-> 0],
           thrown |-> {}, propagated |-> FALSE]

Range(seq) == {seq[i] : i \in 1..Len(seq)}

\* the transport delivers event e of socket s: Emitter.emit runs the socket's
\* listener array in order with no try/catch, so the first exception leaves
\* the loop and reaches the transport.  T: the callbacks that throw when run.
netDispatch(S, s, e, T) ==
  LET run == RunUntilThrow(S.io[s].lst[e], T)
  IN [kind |-> "net", sock |-> s, ev |-> e, reg |-> S.eventListeners[e] \cap ClientCallbacks,
      count |-> [cb \in ClientCallbacks |-> Occ(run, cb)],
      thrown |-> Range(run) \cap T,
      propagated |-> Range(run) \cap T # {}]

\* SocketService.emit(eventName, data): forEach over the Set, each callback
\* in its own try/catch
emitDispatch(S, e, T) ==
  LET reg == S.eventListeners[e] \cap ClientCallbacks
  IN [kind |-> "emit", sock |-> NoSocket, ev |-> e, reg |-> reg,
      count |-> [cb \in ClientCallbacks |-> IF cb \in reg THEN 1 ELSE 0],
      thrown |-> reg \cap T,
      propagated |-> FALSE]

(* ------------------------------- actions -------------------------------- *)
\* the call the last step made, for the calls the properties below look back at
\* (hit: the call found what it was to remove or close)
Did(a, e, cb, hit) == [act |-> a, ev |-> e, cb |-> cb, hit |-> hit]
Other == Did("other", "", "", FALSE)
\* disconnectSocket() of a hook instance: socketService.disconnect() is called
\* when the instance holds a socket; "again": the step before called it too
Disconnecting(hk) ==
  IF hk.socketRef # NoSocket
  THEN Did("disconnect", IF last.act = "disconnect" THEN "again" ELSE "", "",
           svc.socket # NoSocket)
  ELSE Other

RECURSIVE Sum(_, _)
Sum(f, D) ==
  IF D = {} THEN 0
  ELSE LET d == CHOOSE x \in D : TRUE IN f[d] + Sum(f, D \ {d})

TotalReg(S) ==
  Sum([p \in Sockets \X AppEvents |-> Len(S.io[p[1]].lst[p[2]])],
      Sockets \X AppEvents)

CanCreate(S) == IF Connected(S) THEN TRUE ELSE S.nsock < MaxSockets
CanSend(S) == IF Connected(S) THEN Len(S.io[S.socket].out) < MaxOut ELSE TRUE
HasNoListener(h) == \A e \in CustomEvents : h \notin svc.eventListeners[e]

Init ==
  /\ svc = SocketService
  /\ hooks = [h \in Hooks |-> NoHook]
  /\ pend = NoPend
  /\ last = Other
  /\ ses = NoSes
  /\ wire = <<>>
  /\ room = NoRoom
  /\ ed = NoEditor
  /\ chat = NoChat

\* a component that calls useSocket() mounts: the connect effect runs
Mount(h) ==
  /\ ~hooks[h].mounted /\ ~hooks[h].timer /\ HasNoListener(h)
  /\ CanCreate(svc)
  /\ svc' = connectSocket(svc, h)
  /\ hooks' = [hooks EXCEPT
                 ![h] = connectedHook(svc, [NoHook EXCEPT !.mounted = TRUE])]
  /\ pend' = NoPend
  /\ last' = Other
  /\ UNCHANGED page

\* it unmounts: the effect's cleanup runs (a pending reconnect timer stays)
Unmount(h) ==
  /\ hooks[h].mounted
  /\ svc' = disconnectSocketSvc(svc, hooks[h])
  /\ hooks' = [hooks EXCEPT ![h] = [NoHook EXCEPT !.timer = hooks[h].timer]]
  /\ pend' = NoPend
  /\ last' = Disconnecting(hooks[h])
  /\ UNCHANGED page

\* the hook's exported disconnect
Disconnect(h) ==
  /\ hooks[h].mounted
  /\ svc' = disconnectSocketSvc(svc, hooks[h])
  /\ hooks' = [hooks EXCEPT ![h] = disconnectSocketHook(@)]
  /\ pend' = NoPend
  /\ last' = Disconnecting(hooks[h])
  /\ UNCHANGED page

\* the hook's exported reconnect: disconnectSocket(), then connectSocket()
\* from a 1000 ms timer
Reconnect(h) ==
  /\ hooks[h].mounted /\ ~hooks[h].timer
  /\ svc' = disconnectSocketSvc(svc, hooks[h])
  /\ hooks' = [hooks EXCEPT ![h] = [disconnectSocketHook(@) EXCEPT !.timer = TRUE]]
  /\ pend' = NoPend
  /\ last' = Disconnecting(hooks[h])
  /\ UNCHANGED page

\* the reconnect timer fires, also when the instance has unmounted meanwhile
ReconnectTimer(h) ==
  /\ hooks[h].timer
  /\ CanCreate(svc)
  /\ svc' = connectSocket(svc, h)
  /\ hooks' = [hooks EXCEPT
                 ![h] = IF @.mounted
                        THEN [connectedHook(svc, @) EXCEPT !.timer = FALSE]
                        ELSE [@ EXCEPT !.timer = FALSE]]
  /\ pend' = NoPend
  /\ last' = Other
  /\ UNCHANGED page

\* addEventListener(eventName, callback) of instance h
AddEventListener(h, e, cb) ==
  /\ hooks[h].mounted /\ hooks[h].socketRef # NoSocket
  /\ TotalReg(svc) < MaxReg
  /\ svc' = on(svc, e, cb)
  /\ pend' = NoPend
  /\ last' = Other
  /\ UNCHANGED hooks
  /\ UNCHANGED page

\* the unsubscribe function addEventListener returned: socketService.off
Off(e, cb) ==
  /\ svc' = off(svc, e, cb)
  /\ pend' = NoPend
  /\ last' = Did("off", e, cb, cb \in svc.eventListeners[e])
  /\ UNCHANGED hooks
  /\ UNCHANGED page

\* socketService.removeAllListeners(e) (hit: the event had a subscriber in
\* the registry of a service that holds a socket)
RemoveAllListeners(e) ==
  /\ svc' = removeAllListeners(svc, e)
  /\ pend' = NoPend
  /\ last' = Did("removeAllListeners", e, "",
                 svc.socket # NoSocket /\ svc.eventListeners[e] # {})
  /\ UNCHANGED hooks
  /\ UNCHANGED page

\* the hook's joinSession(sessionId)
JoinSession(h) ==
  /\ hooks[h].mounted /\ hooks[h].socketRef # NoSocket
  /\ CanSend(svc)
  /\ svc' = joinSession(svc)
  /\ pend' = NoPend
  /\ last' = Other
  /\ UNCHANGED hooks
  /\ UNCHANGED page

\* a caller holding the service calls the sender of message m, whatever
\* the state of the connection (hit: the socket was connected)
Send(m) ==
  /\ CanSend(svc)
  /\ svc' = sender(svc, m)
  /\ pend' = NoPend
  /\ last' = Did("send", m, "", Connected(svc))
  /\ UNCHANGED hooks
  /\ UNCHANGED page

\* the hook's leaveSession(sessionId)
LeaveSession(h) ==
  /\ hooks[h].mounted /\ hooks[h].socketRef # NoSocket
  /\ CanSend(svc)
  /\ svc' = leaveSession(svc)
  /\ pend' = NoPend
  /\ last' = Other
  /\ UNCHANGED hooks
  /\ UNCHANGED page

\* the transport reports 'connect' on socket s (first connect or reconnect)
TConnect(s) ==
  LET S1 == [svc EXCEPT !.io[s] = sockOpened(@)]
  IN /\ svc.io[s].st = "connecting"
     /\ CanSend(S1)
     /\ svc' = onConnect(S1, s)
     /\ hooks' = IF S1.socket = NoSocket THEN hooks
                 ELSE emit(svc', hooks, "custom:connected")
     /\ pend' = NoPend
     /\ last' = Other
     /\ UNCHANGED page

\* the transport reports 'connect_error' on socket s
TConnectError(s) ==
  LET S1 == [svc EXCEPT !.io[s] = sockOpenFailed(@)]
  IN /\ svc.io[s].st = "connecting"
     /\ svc.reconnectAttempts < MaxErrors
     /\ svc' = onConnectError(S1, s)
     /\ hooks' = emit(svc', hooks, "custom:connect_error")
     /\ pend' = NoPend
     /\ last' = Other
     /\ UNCHANGED page

\* the transport reports 'disconnect' with a reason on socket s
TDisconnect(s, reason) ==
  LET S1 == [svc EXCEPT !.io[s] = sockClosed(@, reason)]
  IN /\ svc.io[s].st = "connected"
     /\ svc' = onDisconnect(S1, s, reason)
     /\ hooks' = emit(S1, hooks, "custom:disconnected")
     /\ pend' = NoPend
     /\ last' = Other
     /\ UNCHANGED page

\* the server rejects the handshake sent on socket s: 'auth-error'
TAuthError(s) ==
  /\ svc.io[s].st = "connected"
  /\ "authenticate" \in Range(svc.io[s].out)
  /\ svc' = onAuthError(svc, s)
  /\ hooks' = emit(svc', hooks, "custom:auth-error")
  /\ pend' = NoPend
  /\ last' = Other
  /\ UNCHANGED page

\* the server sends application event e on socket s
NetEvent(s, e, T) ==
  /\ svc.io[s].st = "connected"
  /\ T \subseteq Range(svc.io[s].lst[e])
  /\ pend' = netDispatch(svc, s, e, T)
  /\ last' = Other
  /\ UNCHANGED <<svc, hooks>>
  /\ UNCHANGED page

\* socketService.emit(e, data) called with an application event
Emit(e, T) ==
  /\ T \subseteq svc.eventListeners[e]
  /\ pend' = emitDispatch(svc, e, T)
  /\ last' = Other
  /\ UNCHANGED <<svc, hooks>>
  /\ UNCHANGED page

(* ------------------------- the session page ---------------------------- *)
\* room for the session messages of one more step: on the wire, and in the
\* log of the connection the service holds
CanSendSession(S) ==
  /\ Len(wire) < MaxWire
  /\ IF Connected(S) THEN Len(S.io[S.socket].out) <= MaxWire ELSE TRUE

\* a direct call of joinSession / leaveSession, for the properties that look
\* back at it (again: the step before was the same call and it sent)
Called(a, id, again, ret) ==
  [act |-> a, sessionId |-> id, again |-> again, ret |-> ret]

\* the session page mounts with sessionId id: useSocket's connect effect, then
\* the first run of the join effect (connectionStatus is not 'connected' in the
\* first render)
SessionMount(id) ==
  /\ ~ses.mounted
  /\ ~hooks[SessionHook].mounted /\ HasNoListener(SessionHook)
  /\ CanCreate(svc)
  /\ svc' = connectSocket(svc, SessionHook)
  /\ hooks' = [hooks EXCEPT
                 ![SessionHook] = connectedHook(svc, [NoHook EXCEPT !.mounted = TRUE])]
  /\ ses' = [mounted |-> TRUE, sessionId |-> id, deps |-> <<id, FALSE>>]
  /\ pend' = NoPend
  /\ last' = Other
  /\ UNCHANGED <<wire, room, ed, chat>>

\* the session page unmounts: React runs the cleanups in the order the effects
\* were declared, useSocket's (disconnectSocket) before the join effect's
\* (leaveSession of the id the effect ran with)
SessionUnmount ==
  LET hk == hooks[SessionHook]
      S1 == disconnectSocketSvc(svc, hk)
      k1 == disconnectSocketHook(hk)
      S2 == IF ses.deps[1] # NoSession THEN useLeaveSession(S1, k1) ELSE S1
  IN /\ ses.mounted
     /\ svc' = S2
     /\ hooks' = [hooks EXCEPT ![SessionHook] = NoHook]
     /\ ses' = NoSes
     /\ wire' = onWire(wire, S1, S2, Msg("leave-session", ses.deps[1]))
     /\ pend' = NoPend
     /\ last' = Other
     /\ UNCHANGED <<room, ed, chat>>

\* the route changes to another session: the sessionId prop changes and the
\* join effect runs again
SetSessionId(id) ==
  LET R == joinEffect(svc, hooks[SessionHook], [ses EXCEPT !.sessionId = id], wire)
  IN /\ ses.mounted /\ id # ses.sessionId
     /\ CanSendSession(svc)
     /\ svc' = R.svc
     /\ ses' = R.ses
     /\ wire' = R.wire
     /\ pend' = NoPend
     /\ last' = Other
     /\ UNCHANGED <<hooks, room, ed, chat>>

\* the transport reports 'connect' on socket s; the render that follows runs
\* the join effect
SessionTConnect(s) ==
  LET S1 == [svc EXCEPT !.io[s] = sockOpened(@)]
      S2 == onConnect(S1, s)
      H  == IF S1.socket = NoSocket THEN hooks
            ELSE emit(S2, hooks, "custom:connected")
      R  == joinEffect(S2, H[SessionHook], ses, wire)
  IN /\ svc.io[s].st = "connecting"
     /\ CanSendSession(S1)
     /\ svc' = R.svc
     /\ hooks' = H
     /\ ses' = R.ses
     /\ wire' = R.wire
     /\ pend' = NoPend
     /\ last' = Other
     /\ UNCHANGED <<room, ed, chat>>

\* the transport reports 'disconnect' on socket s; the render that follows
\* runs the join effect
SessionTDisconnect(s, reason) ==
  LET S1 == [svc EXCEPT !.io[s] = sockClosed(@, reason)]
      S2 == onDisconnect(S1, s, reason)
      H  == emit(S1, hooks, "custom:disconnected")
      R  == joinEffect(S2, H[SessionHook], ses, wire)
  IN /\ svc.io[s].st = "connected"
     /\ CanSendSession(svc)
     /\ svc' = R.svc
     /\ hooks' = H
     /\ ses' = R.ses
     /\ wire' = R.wire
     /\ pend' = NoPend
     /\ last' = Other
     /\ UNCHANGED <<room, ed, chat>>

\* a component calls the joinSession(id) that useSocket instance h exports
CallJoin(h, id) ==
  /\ hooks[h].mounted
  /\ CanSendSession(svc)
  /\ svc' = useJoinSession(svc, hooks[h])
  /\ wire' = onWire(wire, svc, svc', Msg("join-session", id))
  /\ pend' = NoPend
  /\ last' = Called("join", id, FALSE, joinSessionReturns(svc, hooks[h]))
  /\ UNCHANGED <<hooks, ses, room, ed, chat>>

\* a component calls the leaveSession(id) that useSocket instance h exports
CallLeave(h, id) ==
  /\ hooks[h].mounted
  /\ CanSendSession(svc)
  /\ svc' = useLeaveSession(svc, hooks[h])
  /\ wire' = onWire(wire, svc, svc', Msg("leave-session", id))
  /\ pend' = NoPend
  /\ last' = Called("leave", id,
                    IF last.act = "leave"
                    THEN last.sessionId = id /\ last.ret ELSE FALSE,
                    svc' # svc)
  /\ UNCHANGED <<hooks, ses, room, ed, chat>>

(* ------------------------- the document buffer -------------------------- *)
\* the session event the last step delivered
Recv(e, code, from) == [act |-> e, code |-> code, from |-> from]

\* the rest of the client, which the session events do not touch
conn == <<svc, hooks, pend, ses, wire>>

\* useSessionSocket's listener effect runs with the hook connected: its
\* listeners are registered
Listen ==
  /\ ~room.listening
  /\ room' = [room EXCEPT !.listening = TRUE]
  /\ last' = Other
  /\ UNCHANGED <<conn, ed, chat>>

\* the effect's cleanup (connection lost, session changed, unmount)
Unlisten ==
  /\ room.listening
  /\ room' = [room EXCEPT !.listening = FALSE]
  /\ last' = Other
  /\ UNCHANGED <<conn, ed, chat>>

\* the session page renders the CodeEditor (the session has loaded)
EditorMount ==
  /\ ~ed.mounted
  /\ ed' = [NoEditor EXCEPT !.mounted = TRUE]
  /\ last' = Other
  /\ UNCHANGED <<conn, room, chat>>

EditorUnmount ==
  /\ ed.mounted
  /\ ed' = NoEditor
  /\ last' = Other
  /\ UNCHANGED <<conn, room, chat>>

\* useCodeEditorSocket's listener effect runs with its hook connected
EditorListen ==
  /\ ed.mounted /\ ~ed.listening
  /\ ed' = [ed EXCEPT !.listening = TRUE]
  /\ last' = Other
  /\ UNCHANGED <<conn, room, chat>>

EditorUnlisten ==
  /\ ed.listening
  /\ ed' = editorCleanup(ed)
  /\ last' = Other
  /\ UNCHANGED <<conn, room, chat>>

\* the wire after a step has room for its messages
CanSendCode == Len(wire') <= MaxWire

\* the 'code-change' messages on the wire whose echo has not come back
Unechoed(w) ==
  {i \in 1..Len(w) : w[i].type = "code-change" /\ ~w[i].echoed}

\* the echo the last step delivered, how many messages were waiting for
\* their echo when it came, and how many were when the echo of the step
\* before came (0: that step delivered none)
Echoed(code, waiting, before) ==
  [act |-> "echo", code |-> code, waiting |-> waiting, before |-> before]

\* the part of the client an edit does not touch
link == <<svc, hooks, pend, ses>>

\* the local edit the last step made, or the firing of the debounce timer
\* (calls: the edits made since the timer last fired or was cleared, 2 for
\* two or more; first: the text of the first of them; sent: the messages
\* the last edit, and its timer once it fired, have put on the wire)
Edited(a, code, calls, first, sent) ==
  [act |-> a, code |-> code, calls |-> calls, first |-> first, sent |-> sent]

\* the editor widget has loaded: onMount (up: the service's socket is
\* connected)
EditorDidMount(up) ==
  /\ ed.mounted /\ ~ed.ready
  /\ ed' = handleEditorDidMount(ed, ed.listening, room.listening, room.sessionId)
  /\ wire' = handleCodeChange(wire, ed', up)
  /\ CanSendCode
  /\ last' = Other
  /\ UNCHANGED <<link, room, chat>>

\* the user types: the widget's text is c
LocalEdit(c, up) ==
  /\ ed.ready
  /\ ed' = setValue(ed, c)
  /\ wire' = handleCodeChange(wire, ed', up)
  /\ CanSendCode
  /\ last' = IF last.act = "edit" /\ ed.debounce # NoTimer
             THEN Edited("edit", c, 2, last.first, Len(wire') - Len(wire))
             ELSE Edited("edit", c, 1, c, Len(wire') - Len(wire))
  /\ UNCHANGED <<link, room, chat>>

\* 300 ms have passed since the debounce timer was armed
DebounceTimeout(up) ==
  /\ ed.debounce # NoTimer
  /\ wire' = debounceTimeout(wire, ed, up)
  /\ CanSendCode
  /\ ed' = [ed EXCEPT !.debounce = NoTimer]
  /\ last' = IF last.act = "edit"
             THEN Edited("timeout", last.code, last.calls, last.first,
                         last.sent + Len(wire') - Len(wire))
             ELSE Edited("timeout", ed.debounce.code, 0, NoCode,
                         Len(wire') - Len(wire))
  /\ UNCHANGED <<link, room, chat>>

\* the server sends 'code-sync' {code: c}: every registered listener runs,
\* then the effects of the render (the service's socket is connected or not)
CodeSync(c) ==
  /\ room.listening \/ ed.listening
  /\ room' = IF room.listening THEN setCodeState(room, c) ELSE room
  /\ ed' = IF ed.listening THEN editorOnCode(ed, c, "server") ELSE ed
  /\ \E up \in BOOLEAN :
        wire' = IF ed.listening
                THEN templateEffectSends(wire, onCodeChange(ed, c, "server"), up)
                ELSE wire
  /\ CanSendCode
  /\ last' = Recv("code-sync", c, "server")
  /\ UNCHANGED <<link, chat>>

\* the server's echo of the oldest message that waits for one reaches the
\* sender: 'code-change' {code, from: 'self'}
Echo ==
  LET i == CHOOSE j \in Unechoed(wire) : \A k \in Unechoed(wire) : j <= k
  IN /\ Unechoed(wire) # {}
     /\ room.listening \/ ed.listening
     /\ room' = IF room.listening THEN setCodeState(room, wire[i].code) ELSE room
     /\ ed' = IF ed.listening THEN onCodeChange(ed, wire[i].code, "self") ELSE ed
     /\ wire' = [wire EXCEPT ![i].echoed = TRUE]
     /\ last' = Echoed(wire[i].code, Cardinality(Unechoed(wire)),
                       IF last.act = "echo" THEN last.waiting ELSE 0)
     /\ UNCHANGED <<link, chat>>

\* the session the last step left, and whether listeners were registered
\* in it
Navigated(from, listening) ==
  [act |-> "navigate", from |-> from, listening |-> listening]

\* the route changes to session id: the render with the new sessionId and
\* its effects
Navigate(id) ==
  /\ id # room.sessionId
  /\ room' = setSessionId(room, id)
  /\ ed' = editorSetSessionId(ed)
  /\ last' = Navigated(room.sessionId, room.listening \/ ed.listening)
  /\ UNCHANGED <<conn, chat>>

\* an event the server sent to the members of the session the page has just
\* left reaches the client: the listeners registered for its type run
InFlight(ev) ==
  /\ last.act = "navigate" /\ last.listening
  /\ room.listening \/ ed.listening
  /\ room' = IF room.listening THEN deliver(room, ev) ELSE room
  /\ ed' = IF ed.listening /\ ev.type = "code-change"
           THEN onCodeChange(ed, ev.code, ev.from) ELSE ed
  /\ last' = Other
  /\ UNCHANGED <<conn, chat>>

\* the server sends 'code-change' {code: c, from}
CodeChange(c, from) ==
  /\ room.listening \/ ed.listening
  /\ room' = IF room.listening THEN setCodeState(room, c) ELSE room
  /\ ed' = IF ed.listening THEN editorOnCode(ed, c, from) ELSE ed
  /\ \E up \in BOOLEAN :
        wire' = IF ed.listening
                THEN templateEffectSends(wire, onCodeChange(ed, c, from), up)
                ELSE wire
  /\ CanSendCode
  /\ last' = Recv("code-change", c, from)
  /\ UNCHANGED <<link, chat>>

(* -------------------- roster, typing and execution --------------------- *)
\* the 'user-left' the last step delivered, and the roster it found
Left(c, before) == [act |-> "user-left", conn |-> c, roster |-> before]

\* the 'cursor-update' the last step delivered, and the timestamp of the
\* update of the same connection that the step before it delivered (0: none)
Moved(data, before) == [act |-> "cursor-update", data |-> data, before |-> before]

\* the execution event the last step delivered, and the slot it found
Ran(e, u, res, before) == [act |-> e, user |-> u, result |-> res, before |-> before]

SessionParticipants(list) ==
  /\ room.listening
  /\ room' = sessionParticipants(room, list)
  /\ last' = Other
  /\ UNCHANGED <<conn, ed, chat>>

UserJoined(c) ==
  /\ room.listening
  /\ Len(room.participants) < MaxRoster
  /\ room' = userJoined(room, c)
  /\ last' = Other
  /\ UNCHANGED <<conn, ed, chat>>

UserLeft(c) ==
  /\ room.listening
  /\ room' = userLeft(room, c)
  /\ last' = Left(c, room.participants)
  /\ UNCHANGED <<conn, ed, chat>>

\* the 'cursor-update' payloads
CursorData ==
  [socketId : ConnIds, username : Users, position : Positions,
   color : Colors, timestamp : Timestamps]

CursorUpdate(data) ==
  /\ room.listening
  /\ room' = cursorUpdate(room, data)
  /\ last' = Moved(data, IF /\ last.act = "cursor-update"
                               /\ last.data.socketId = data.socketId
                            THEN last.data.timestamp ELSE 0)
  /\ UNCHANGED <<conn, ed, chat>>

\* a 'chat-message' arrives; the ChatWindow, when rendered, renders with the
\* new log and its history effect runs
ChatMessage(id) ==
  /\ room.listening
  /\ Len(room.chatMessages) < MaxChat
  /\ room' = chatMessage(room, id)
  /\ chat' = IF chat.mounted THEN historyEffect(chat, room'.chatMessages)
             ELSE chat
  /\ last' = Other
  /\ UNCHANGED <<conn, ed>>

\* a component calls the hook's clearChat; the ChatWindow, when rendered,
\* renders with the empty log and its history effect runs
ClearChat ==
  /\ room' = clearChat(room)
  /\ chat' = IF chat.mounted THEN historyEffect(chat, room'.chatMessages)
             ELSE chat
  /\ last' = Other
  /\ UNCHANGED <<conn, ed>>

\* the chat panel is opened (showChat): the ChatWindow mounts with the log
\* the hook holds, and its history effect runs
ChatWindowMount ==
  /\ ~chat.mounted
  /\ chat' = historyEffect([NoChat EXCEPT !.mounted = TRUE], room.chatMessages)
  /\ last' = Other
  /\ UNCHANGED <<conn, room, ed>>

\* the chat panel is closed: the ChatWindow and its state are gone
ChatWindowUnmount ==
  /\ chat.mounted
  /\ chat' = NoChat
  /\ last' = Other
  /\ UNCHANGED <<conn, room, ed>>

TypingStatusUpdate(u, isTyping) ==
  /\ room.listening
  /\ room' = typingStatusUpdate(room, u, isTyping)
  /\ last' = Other
  /\ UNCHANGED <<conn, ed, chat>>

\* the typing timeout window of user u passes with no event about u: no
\* timer of the client runs
TypingWindowPasses(u) ==
  /\ u \in room.typingUsers /\ u \notin room.expired
  /\ room' = [room EXCEPT !.expired = @ \cup {u}]
  /\ last' = Other
  /\ UNCHANGED <<conn, ed, chat>>

ExecutionStarted(u) ==
  /\ room.listening
  /\ room' = executionStarted(room, u)
  /\ last' = Ran("execution-started", u, Null, room.executionState)
  /\ UNCHANGED <<conn, ed, chat>>

ExecutionResult(res, u) ==
  /\ room.listening
  /\ room' = executionResult(room, res, u)
  /\ last' = Ran("execution-result", u, res, room.executionState)
  /\ UNCHANGED <<conn, ed, chat>>

ExecutionError(err) ==
  /\ room.listening
  /\ room' = executionError(room, err)
  /\ last' = Ran("execution-error", Undefined, err, room.executionState)
  /\ UNCHANGED <<conn, ed, chat>>

\* the connection life cycle: the hooks, the service and the transport
Next ==
  \/ \E h \in Hooks : Mount(h)
  \/ \E h \in Hooks : Unmount(h)
  \/ \E h \in Hooks : Disconnect(h)
  \/ \E h \in Hooks : Reconnect(h)
  \/ \E h \in Hooks : ReconnectTimer(h)
  \/ \E h \in Hooks : JoinSession(h)
  \/ \E h \in Hooks : LeaveSession(h)
  \/ \E s \in Sockets : TConnect(s)
  \/ \E s \in Sockets : TConnectError(s)
  \/ \E s \in Sockets, r \in Reasons : TDisconnect(s, r)
  \/ \E s \in Sockets : TAuthError(s)

Spec == Init /\ [][Next]_vars

\* the event dispatcher: subscriptions and deliveries on the sockets that
\* the mounting hooks create
NextDispatch ==
  \/ \E h \in Hooks : Mount(h)
  \/ \E s \in Sockets : TConnect(s)
  \/ \E h \in Hooks, e \in AppEvents, cb \in ClientCallbacks : AddEventListener(h, e, cb)
  \/ \E e \in AppEvents, cb \in ClientCallbacks : Off(e, cb)
  \/ \E s \in Sockets, e \in AppEvents, T \in SUBSET ClientCallbacks : NetEvent(s, e, T)
  \/ \E e \in AppEvents, T \in SUBSET ClientCallbacks : Emit(e, T)

SpecDispatch == Init /\ [][NextDispatch]_vars

\* the connection status of the useSocket instances: mounts, unmounts,
\* reconnects and the transport's events
NextStatus ==
  \/ \E h \in Hooks : Mount(h)
  \/ \E h \in Hooks : Unmount(h)
  \/ \E h \in Hooks : Reconnect(h)
  \/ \E h \in Hooks : ReconnectTimer(h)
  \/ \E s \in Sockets : TConnect(s)
  \/ \E s \in Sockets : TConnectError(s)
  \/ \E s \in Sockets, r \in Reasons : TDisconnect(s, r)

\* the senders of the service, called in every state of the connection
NextSend ==
  \/ Mount(SessionHook)
  \/ Unmount(SessionHook)
  \/ \E s \in Sockets : TConnect(s)
  \/ \E s \in Sockets, r \in Reasons : TDisconnect(s, r)
  \/ \E m \in Senders : Send(m)

SpecSend == Init /\ [][NextSend]_vars

\* an open attempt of the transport ends (in 'connect' or 'connect_error')
\* and an armed reconnect timer fires; the components and the network are
\* free to do nothing
SpecStatus ==
  /\ Init /\ [][NextStatus]_vars
  /\ WF_vars(\E s \in Sockets : TConnect(s) \/ TConnectError(s))
  /\ WF_vars(\E h \in Hooks : ReconnectTimer(h))

\* the registry of one connection: subscriptions, removeAllListeners and
\* dispatch
NextRegistry ==
  \/ Mount(SessionHook)
  \/ \E s \in Sockets : TConnect(s)
  \/ \E e \in AppEvents, cb \in ClientCallbacks :
        AddEventListener(SessionHook, e, cb)
  \/ \E e \in AppEvents : RemoveAllListeners(e)
  \/ \E s \in Sockets, e \in AppEvents : NetEvent(s, e, {})
  \/ \E e \in AppEvents : Emit(e, {})

SpecRegistry == Init /\ [][NextRegistry]_vars

\* the session page: useSessionSocket beside the useSocket instance of the
\* editor, on the sockets their effects create
NextSession ==
  \/ \E id \in SessionIds : SessionMount(id)
  \/ SessionUnmount
  \/ \E id \in SessionIds : SetSessionId(id)
  \/ \E h \in Hooks \ {SessionHook} : Mount(h)
  \/ \E h \in Hooks \ {SessionHook} : Unmount(h)
  \/ \E s \in Sockets : SessionTConnect(s)
  \/ \E s \in Sockets, r \in Reasons : SessionTDisconnect(s, r)
  \/ \E h \in Hooks, id \in SessionIds : CallJoin(h, id)
  \/ \E h \in Hooks, id \in SessionIds : CallLeave(h, id)

SpecSession == Init /\ [][NextSession]_vars

\* the document buffer: the code events as useSessionSocket and the
\* CodeEditor handle them
NextDoc ==
  \/ Listen
  \/ Unlisten
  \/ EditorMount
  \/ EditorUnmount
  \/ EditorListen
  \/ EditorUnlisten
  \/ \E up \in BOOLEAN : EditorDidMount(up)
  \/ \E c \in Codes, up \in BOOLEAN : LocalEdit(c, up)
  \/ \E c \in Codes : CodeSync(c)
  \/ \E c \in Codes, from \in Origins : CodeChange(c, from)

SpecDoc == Init /\ [][NextDoc]_vars

\* the texts a 'code-sync' or 'code-change' of the server carries: those of
\* Codes and the empty document
RemoteCodes == Codes \cup {NoCode}

\* the inbound code events of an editable session, an empty document among
\* them, and the senders they can set off
NextRemote ==
  \/ Listen
  \/ Unlisten
  \/ EditorMount
  \/ EditorUnmount
  \/ EditorListen
  \/ EditorUnlisten
  \/ \E up \in BOOLEAN : EditorDidMount(up)
  \/ \E up \in BOOLEAN : DebounceTimeout(up)
  \/ \E c \in RemoteCodes : CodeSync(c)
  \/ \E c \in RemoteCodes, from \in Origins : CodeChange(c, from)

SpecRemote == Init /\ [][NextRemote]_vars

\* the editor's senders: local edits, the debounce timer and the echoes of
\* the edits
NextEdit ==
  \/ Listen
  \/ Unlisten
  \/ EditorMount
  \/ EditorUnmount
  \/ EditorListen
  \/ EditorUnlisten
  \/ \E up \in BOOLEAN : EditorDidMount(up)
  \/ \E c \in Codes, up \in BOOLEAN : LocalEdit(c, up)
  \/ \E up \in BOOLEAN : DebounceTimeout(up)
  \/ Echo

SpecEdit == Init /\ [][NextEdit]_vars

\* leaving a session: the route changes while events of the session left
\* are on their way and a debounce timer is armed
NextLeave ==
  \/ Listen
  \/ Unlisten
  \/ EditorMount
  \/ EditorUnmount
  \/ EditorListen
  \/ EditorUnlisten
  \/ \E up \in BOOLEAN : EditorDidMount(up)
  \/ \E id \in SessionIds : Navigate(id)
  \/ \E ev \in SessionEvents : InFlight(ev)

SpecLeave == Init /\ [][NextLeave]_vars

\* the room: the roster, typing and execution events as useSessionSocket
\* handles them
NextRoom ==
  \/ Listen
  \/ Unlisten
  \/ \E list \in Rosters : SessionParticipants(list)
  \/ \E c \in ConnIds : UserJoined(c)
  \/ \E c \in ConnIds : UserLeft(c)
  \/ \E u \in Users, b \in BOOLEAN : TypingStatusUpdate(u, b)
  \/ \E u \in Users : TypingWindowPasses(u)
  \/ \E u \in Users : ExecutionStarted(u)
  \/ \E res \in Outputs, u \in Users : ExecutionResult(res, u)
  \/ \E err \in Failures : ExecutionError(err)

SpecRoom == Init /\ [][NextRoom]_vars

\* the chat: the 'chat-message' events as useSessionSocket and the
\* ChatWindow handle them
NextChat ==
  \/ Listen
  \/ Unlisten
  \/ ChatWindowMount
  \/ ChatWindowUnmount
  \/ \E id \in MsgIds : ChatMessage(id)
  \/ ClearChat

SpecChat == Init /\ [][NextChat]_vars

\* the cursors: the roster and cursor events as useSessionSocket handles
\* them, for a room of two other connections
CursorConns == {"c1", "c2"}

NextCursors ==
  \/ Listen
  \/ Unlisten
  \/ \E c \in CursorConns : UserJoined(c)
  \/ \E c \in CursorConns : UserLeft(c)
  \/ \E data \in {d \in CursorData : d.socketId \in CursorConns} :
        CursorUpdate(data)

SpecCursors == Init /\ [][NextCursors]_vars

(* ======================= the event dispatcher ========================== *)
\* a dispatch has been made: by SocketService.emit, or by the transport on
\* the socket the service holds
Delivered ==
  \/ pend.kind = "emit"
  \/ pend.kind = "net" /\ pend.sock = svc.socket

\* C1: a dispatched event (delivered by the transport or by
\* SocketService.emit) in which no callback throws invokes exactly the
\* callbacks currently registered for it, each exactly once.
C1_ExactDelivery ==
  (Delivered /\ pend.thrown = {}) =>
     \A cb \in ClientCallbacks :
        pend.count[cb] = IF cb \in pend.reg THEN 1 ELSE 0

\* C2: registering the same (event, callback) pair more than once does not
\* double-deliver: one occurrence of the event invokes a callback at most
\* once, and after off(E, cb) the pair is registered nowhere on the service's
\* socket.
C2_NoDoubleDelivery ==
  /\ Delivered => \A cb \in ClientCallbacks : pend.count[cb] <= 1
  /\ (last.act = "off" /\ svc.socket # NoSocket) =>
        /\ last.cb \notin svc.eventListeners[last.ev]
        /\ Occ(svc.io[svc.socket].lst[last.ev], last.cb) = 0

\* C3: off(E, cb) removes the registration (E, cb) from the registry and
\* touches no other: every other callback of E and every registration of any
\* other event stays where it was, in the registry's Set and in every
\* socket's listener array, so it is delivered as before.
C3_OffRemovesExactly ==
  [][last'.act = "off" =>
       /\ last'.cb \notin svc'.eventListeners[last'.ev]
       /\ \A e \in Events, cb \in Callbacks :
            <<e, cb>> # <<last'.ev, last'.cb>> =>
               (cb \in svc'.eventListeners[e]) = (cb \in svc.eventListeners[e])
       /\ \A s \in Sockets, e \in AppEvents, cb \in ClientCallbacks :
            <<e, cb>> # <<last'.ev, last'.cb>> =>
               Occ(svc'.io[s].lst[e], cb) = Occ(svc.io[s].lst[e], cb)]_vars

\* C3 witness: off has removed a registered callback while a sibling callback
\* of the same event and a registration of another event stay registered
C3_Witness ==
  /\ last.act = "off" /\ last.hit
  /\ \E cb \in ClientCallbacks \ {last.cb} :
        /\ cb \in svc.eventListeners[last.ev]
        /\ svc.socket # NoSocket
        /\ Occ(svc.io[svc.socket].lst[last.ev], cb) = 1
  /\ \E e \in AppEvents \ {last.ev} : svc.eventListeners[e] # {}

\* C4: when a subscriber throws during a dispatch, every subscriber
\* registered for the event is still invoked in that dispatch and the
\* exception does not reach the dispatching code.  (A dispatch changes no
\* subscriber set: NetEvent and Emit leave svc unchanged.)
C4_IsolatedFailure ==
  (Delivered /\ pend.thrown # {}) =>
     /\ \A cb \in pend.reg : pend.count[cb] >= 1
     /\ ~pend.propagated

(* ===================== the connection life cycle ======================= *)
Live(k) == k.st \in {"connecting", "connected"}

\* C5: the service owns at most one live transport connection: every socket
\* that is connecting or connected is the socket the service holds, so no
\* socket it has dropped stays open with handlers that write the service.
C5_OneLiveSocket ==
  \A s \in Sockets : Live(svc.io[s]) => s = svc.socket

\* C6: disconnect() is idempotent: from every state, a second call changes
\* nothing the first left (socket null, isConnected false, no listeners), no
\* socket is ever closed twice, and the hook's disconnectSocket is
\* idempotent in the same way.
C6_DisconnectIdempotent ==
  LET S1 == disconnect(svc)
  IN /\ disconnect(S1) = S1
     /\ S1.socket = NoSocket /\ ~S1.isConnected /\ S1.eventListeners = NoListeners
     /\ \A s \in Sockets : S1.io[s].closes <= 1 /\ svc.io[s].closes <= 1
     /\ \A h \in Hooks :
          LET k == disconnectSocketHook(hooks[h])
          IN disconnectSocketHook(k) = k /\ k.socketRef = NoSocket

\* C6 witness: socketService.disconnect() has been called twice in
\* succession, the first call having closed a socket
C6_Witness ==
  /\ last.act = "disconnect" /\ last.ev = "again" /\ ~last.hit
  /\ svc.socket = NoSocket
  /\ \E s \in Sockets : svc.io[s].closes = 1

\* C7: on every transport 'connect' the handshake goes out first: a connected
\* socket has carried exactly one 'authenticate' on this connection, before
\* any other outbound message.
C7_AuthenticateFirst ==
  \A s \in Sockets :
     svc.io[s].st = "connected" =>
        /\ svc.io[s].out # <<>>
        /\ Head(svc.io[s].out) = "authenticate"
        /\ Occ(svc.io[s].out, "authenticate") = 1

TransportStep ==
  \E s \in Sockets :
     \/ TConnect(s)
     \/ TConnectError(s)
     \/ TAuthError(s)
     \/ \E r \in Reasons : TDisconnect(s, r)

\* C8: after maxReconnectAttempts consecutive connect_error events the status
\* is terminal: no socket is left retrying, and no transport event changes
\* the connectionStatus of any hook any more.
C8_TerminalFailure ==
  [][svc.reconnectAttempts >= maxReconnectAttempts =>
       /\ \A s \in Sockets : svc.io[s].st # "connecting"
       /\ TransportStep => \A h \in Hooks : hooks'[h].status = hooks[h].status]_vars

\* the service once the transport has closed socket s, before the handler
Closed(s, reason) == [svc EXCEPT !.io[s] = sockClosed(@, reason)]

\* C9: a 'disconnect' with reason 'io server disconnect' starts a manual
\* reconnect of the socket that was disconnected; with any other reason the
\* handler touches no socket.
C9_ServerDisconnectReconnects ==
  [][\A s \in Sockets :
       /\ TDisconnect(s, "io server disconnect") => svc'.io[s].st = "connecting"
       /\ \A r \in Reasons \ {"io server disconnect"} :
             TDisconnect(s, r) => svc'.io = Closed(s, r).io]_vars

\* C10: an inbound 'auth-error' sets the connectionStatus of every hook
\* instance that holds the connection to 'auth-error', and the client sends
\* nothing and reconnects nothing because of it.
C10_AuthErrorSurfaced ==
  [][\A s \in Sockets :
       TAuthError(s) =>
          /\ \A h \in Hooks :
               (hooks[h].mounted /\ hooks[h].socketRef # NoSocket) =>
                   hooks'[h].status = "auth-error"
          /\ svc' = svc]_vars

(* ======================== session membership =========================== *)
\* C11: joinSession(sessionId) called while the service is not connected (it
\* holds no socket, or a socket that is connecting or closed) returns false,
\* sends nothing and changes no state of the service, the hooks or the page.
C11_JoinNeedsConnection ==
  [][\A h \in Hooks, id \in SessionIds :
       (CallJoin(h, id) /\ ~Connected(svc)) =>
          /\ ~last'.ret
          /\ svc' = svc /\ wire' = wire
          /\ hooks' = hooks /\ ses' = ses]_vars

\* C11 witness: joinSession has returned false on a socket that is still
\* connecting, for an instance that holds a socket
C11_Witness ==
  /\ last.act = "join" /\ ~last.ret
  /\ svc.socket # NoSocket /\ svc.io[svc.socket].st = "connecting"
  /\ \E h \in Hooks : hooks[h].mounted /\ hooks[h].socketRef # NoSocket

\* C12: two leaveSession calls in succession for the same session id, with no
\* join in between, put one 'leave-session' on the wire: when the first call
\* has sent it, the second sends nothing.
C12_LeaveOnce ==
  (last.act = "leave" /\ last.again) => ~last.ret

\* the service holds a connection on which the last session message is the
\* join of session id
Joined(id) ==
  /\ Connected(svc)
  /\ "join-session" \in Range(svc.io[svc.socket].out)
  /\ wire # <<>> /\ wire[Len(wire)] = Msg("join-session", id)

\* the session messages a step has put on the wire
Sent == SubSeq(wire', Len(wire) + 1, Len(wire'))

\* C13: when the session hook unmounts, or its sessionId changes, after the
\* session was joined, that step sends exactly one 'leave-session' for the
\* session id it had.
C13_LeaveExactlyOnce ==
  [][((SessionUnmount \/ \E id \in SessionIds : SetSessionId(id))
        /\ Joined(ses.sessionId)) =>
       Occ(Sent, Msg("leave-session", ses.sessionId)) = 1]_vars

\* C14: when the socket the service holds becomes connected while the session
\* hook is mounted for a session (after a lost connection, or after a join
\* that was asked for before the connection was there), the 'join-session' of
\* that session is sent on the new connection.
C14_RejoinOnConnect ==
  [][\A s \in Sockets :
       (SessionTConnect(s) /\ ses.mounted /\ s = svc.socket) =>
          Occ(Sent, Msg("join-session", ses.sessionId)) = 1]_vars

(* ========================= the document buffer ========================== *)
\* C15: an inbound 'code-change' whose from is "self" leaves the document
\* buffer as it was: the editor's text, the editor component's code and the
\* session hook's codeState are unchanged, and the suppression guard is not
\* set after it.
C15_SelfEchoSkipped ==
  [][\A c \in Codes :
       CodeChange(c, "self") =>
          /\ ed'.content = ed.content /\ ed'.code = ed.code
          /\ room'.codeState = room.codeState
          /\ ~ed'.suppressNextChange]_vars

\* C16: an inbound 'code-sync' delivered while the listeners of the session
\* hook and of the editor are registered replaces the document buffer with
\* its code, whether or not the editor widget has mounted: codeState and the
\* editor component's code are the code, and so is the widget's text when
\* there is a widget.
C16_SyncReplaces ==
  [][\A c \in Codes :
       (CodeSync(c) /\ room.listening /\ ed.listening) =>
          /\ room'.codeState = c
          /\ ed'.code = c
          /\ ed'.ready => ed'.content = c]_vars

\* C17: last writer wins: right after a 'code-sync' or a 'code-change' that is
\* not from "self", delivered with the listeners registered, the document
\* buffer is exactly the code of that event.
C17_LastWriterWins ==
  (/\ last.act \in {"code-sync", "code-change"}
   /\ last.from # "self"
   /\ room.listening /\ ed.listening) =>
     /\ room.codeState = last.code
     /\ ed.code = last.code
     /\ ed.ready => ed.content = last.code

(* ================== roster, typing and execution ======================= *)
\* C18: a typing flag set for user U by 'typing-status-update' {isTyping:
\* true} is gone from typingUsers once the timeout window has passed with no
\* further event about U.
C18_TypingExpires ==
  \A u \in Users : u \in room.expired => u \notin room.typingUsers

\* C19: the roster never holds two entries with the same connection id,
\* whatever 'session-participants', 'user-joined' and 'user-left' events
\* arrive.
C19_RosterNoDuplicates ==
  \A c \in ConnIds : Occ(room.participants, c) <= 1

\* C20: 'execution-started' {username: u} makes the execution slot
\* {isRunning: true, result: null, error: null, executedBy: u} whatever it
\* held; an 'execution-result' {result: r, executedBy: u} after it makes the
\* slot {isRunning: false, result: r, error: null, executedBy: u}.
C20_ExecutionSlot ==
  [][/\ \A u \in Users :
          ExecutionStarted(u) =>
             room'.executionState =
                [isRunning |-> TRUE, result |-> Null, error |-> Null,
                 executedBy |-> u]
     /\ \A res \in Outputs, u \in Users :
          (ExecutionResult(res, u) /\ room.executionState.isRunning) =>
             room'.executionState =
                [isRunning |-> FALSE, result |-> res, error |-> Null,
                 executedBy |-> u]]_vars

\* C20 witness: an 'execution-result' has arrived for the run that an
\* 'execution-started' of the same user had opened, and the slot holds it
C20_Witness ==
  /\ last.act = "execution-result"
  /\ last.before = [isRunning |-> TRUE, result |-> Null, error |-> Null,
                    executedBy |-> last.user]
  /\ room.executionState = [isRunning |-> FALSE, result |-> last.result,
                            error |-> Null, executedBy |-> last.user]

\* C21: the execution slot never holds a result and an error together, and
\* it is running only while it holds neither; an 'execution-result' or an
\* 'execution-error' leaves the slot not running with exactly one of the two
\* populated.
C21_ResultXorError ==
  /\ [](/\ ~(room.executionState.result # Null /\ room.executionState.error # Null)
        /\ room.executionState.isRunning =>
              (room.executionState.result = Null /\ room.executionState.error = Null))
  /\ [][/\ \A res \in Outputs, u \in Users :
             ExecutionResult(res, u) =>
                /\ ~room'.executionState.isRunning
                /\ room'.executionState.result # Null
                /\ room'.executionState.error = Null
        /\ \A err \in Failures :
             ExecutionError(err) =>
                /\ ~room'.executionState.isRunning
                /\ room'.executionState.error # Null
                /\ room'.executionState.result = Null]_vars

\* C21 witness: an 'execution-error' has arrived while the slot held the
\* result of an earlier run, and the slot now holds the error alone
C21_Witness ==
  /\ last.act = "execution-error"
  /\ last.before.result # Null
  /\ room.executionState.error = last.result
  /\ room.executionState.result = Null
  /\ ~room.executionState.isRunning

\* C26: 'session-participants' makes the roster the received list;
\* 'user-joined' puts the joined user at the end of the roster and keeps the
\* entries it had; 'user-left' for connection c removes every entry of c and
\* keeps the other entries, in their order.
C26_RosterUpdates ==
  [][/\ \A list \in Rosters :
          SessionParticipants(list) => room'.participants = list
     /\ \A c \in ConnIds :
          UserJoined(c) =>
             /\ Len(room'.participants) = Len(room.participants) + 1
             /\ room'.participants[Len(room'.participants)] = c
             /\ \A i \in 1..Len(room.participants) :
                   room'.participants[i] = room.participants[i]
     /\ \A c \in ConnIds :
          UserLeft(c) =>
             LET kept == {i \in 1..Len(room.participants) :
                            room.participants[i] # c}
                 nth(j) == CHOOSE i \in kept :
                             Cardinality({k \in kept : k <= i}) = j
             IN /\ Len(room'.participants) = Cardinality(kept)
                /\ \A j \in 1..Cardinality(kept) :
                      room'.participants[j] = room.participants[nth(j)]]_vars

\* C26 witness: a 'user-left' has arrived for the connection listed between
\* two other participants, and the roster is those two, in their order
C26_Witness ==
  /\ last.act = "user-left"
  /\ Len(last.roster) = 3
  /\ last.roster[2] = last.conn
  /\ last.roster[1] # last.conn /\ last.roster[3] # last.conn
  /\ last.roster[1] # last.roster[3]
  /\ room.participants = <<last.roster[1], last.roster[3]>>

\* C27: the execution slot is idle (not running, no result, no error),
\* running, or finished (a result or an error populated).  It becomes
\* finished only from running, and a finished slot changes only to idle.
C27_ExecutionStateMachine ==
  [][LET finished(x) == x.result # Null \/ x.error # Null
         idle(x)     == ~x.isRunning /\ x.result = Null /\ x.error = Null
     IN room'.executionState # room.executionState =>
          /\ finished(room'.executionState) => room.executionState.isRunning
          /\ finished(room.executionState) => idle(room'.executionState)]_vars

\* C24: a 'cursor-update' makes the cursor of its connection the username,
\* position and colour of the update, whatever its timestamp and whatever
\* the cursor was, and leaves the cursor of every other connection as it was.
C24_CursorLastWriteWins ==
  [][\A data \in CursorData :
        CursorUpdate(data) =>
           /\ room'.cursors[data.socketId] =
                 [username |-> data.username, position |-> data.position,
                  color |-> data.color]
           /\ \A c \in ConnIds \ {data.socketId} :
                 room'.cursors[c] = room.cursors[c]]_vars

\* C24 witness: an update has been delivered right after an update of the
\* same connection with a newer timestamp, and the
\* cursor is the one of the update delivered last; another connection has a
\* cursor too
C24_Witness ==
  /\ last.act = "cursor-update"
  /\ last.before > last.data.timestamp
  /\ room.cursors[last.data.socketId].position = last.data.position
  /\ room.cursors[last.data.socketId].username = last.data.username
  /\ \E c \in ConnIds \ {last.data.socketId} : room.cursors[c] # NoCursor

\* C25: when every cursor belongs to a connection of the roster and a
\* 'user-left' for connection c is delivered, c has no cursor afterwards and
\* every cursor still belongs to a connection of the roster.
C25_CursorLeavesWithUser ==
  [][\A c \in ConnIds :
        (/\ UserLeft(c)
         /\ \A d \in ConnIds :
               room.cursors[d] # NoCursor => Occ(room.participants, d) > 0) =>
           /\ room'.cursors[c] = NoCursor
           /\ \A d \in ConnIds :
                 room'.cursors[d] # NoCursor => Occ(room'.participants, d) > 0]_vars

\* C22: no message id is twice in the chat log of the hook, and none is twice
\* in the list the ChatWindow renders from it.
C22_ChatIdsOnce ==
  /\ \A id \in MsgIds : Occ(room.chatMessages, id) <= 1
  /\ chat.mounted =>
        \A id \in MsgIds : Occ(allMessages(chat, room.chatMessages), id) <= 1

\* C30: removeAllListeners(e) called with no socket changes nothing; called
\* with a socket it leaves event e without subscriber, so that a dispatch of e
\* by the service or by its socket invokes no callback, and it leaves the
\* subscribers of every other event as they were.
C30_RemoveAllListeners ==
  [][\A e \in AppEvents :
        RemoveAllListeners(e) =>
           IF svc.socket = NoSocket THEN svc' = svc
           ELSE /\ svc'.eventListeners[e] = {}
                /\ \A cb \in ClientCallbacks :
                      /\ emitDispatch(svc', e, {}).count[cb] = 0
                      /\ netDispatch(svc', svc'.socket, e, {}).count[cb] = 0
                /\ \A x \in Events \ {e} :
                      svc'.eventListeners[x] = svc.eventListeners[x]
                /\ \A x \in AppEvents \ {e} :
                      svc'.io[svc'.socket].lst[x] = svc.io[svc.socket].lst[x]]_vars

\* C30 witness: removeAllListeners has been called for an event that had
\* subscribers, and another event still has its subscribers
C30_Witness ==
  /\ last.act = "removeAllListeners" /\ last.hit
  /\ svc.eventListeners[last.ev] = {}
  /\ \E x \in AppEvents \ {last.ev} :
        svc.eventListeners[x] # {} /\ svc.io[svc.socket].lst[x] # <<>>

(* ========================= the editor's senders ========================= *)
\* C29: a local edit handed to a connected debounced sender leaves one timer
\* armed, with the text of that edit, whatever timer was pending; when the
\* timer fires with the service connected exactly one 'code-change' goes
\* out, with the text of the last edit, and no timer stays armed.
C29_DebounceSendsLast ==
  [][/\ \A c \in Codes, up \in BOOLEAN :
          (LocalEdit(c, up) /\ ed.sender.editor /\ ed.sender.sessionId # NoSession) =>
             ed'.debounce = [sessionId |-> ed.sender.sessionId, code |-> c]
     /\ \A up \in BOOLEAN :
          DebounceTimeout(up) =>
             /\ ed'.debounce = NoTimer
             /\ up => /\ Sent = <<CodeMsg(ed.debounce.sessionId, ed.debounce.code)>>
                      /\ last.act = "edit" => Sent[1].code = last.code
             /\ ~up => Sent = <<>>]_vars

\* C29 witness: the timer has fired after a burst of two or more edits whose
\* first and last texts differ; the text of the last edit is the last message
\* on the wire and the text of the first is not on the wire
C29_Witness ==
  /\ last.act = "timeout" /\ last.calls = 2 /\ last.first # last.code
  /\ wire # <<>> /\ wire[Len(wire)] = CodeMsg(FirstSession, last.code)
  /\ \A i \in 1..Len(wire) : wire[i].code # last.first

\* C28 as stated: when the messages of two local edits were waiting for
\* their echo as the first echo came, the echo that comes next is applied to
\* the editor: the widget's text and the component's code are its code.
C28_SecondEchoApplied ==
  [][(/\ Echo /\ ed.listening /\ ed.ready
      /\ last'.before >= 2
      /\ \A i \in 1..Len(wire) : wire[i].code \in Codes) =>
        (ed'.content = last'.code /\ ed'.code = last'.code)]_vars

\* C28: no echo is applied to the editor, however many messages wait for
\* their echo: an echo leaves the widget's text, the component's code, the
\* guard and the timer as they were; and no local edit, and no echo, leaves
\* the guard set.
C28_EveryEchoSkipped ==
  [][/\ Echo => ed' = ed
     /\ \A c \in Codes, up \in BOOLEAN :
          LocalEdit(c, up) => ~ed'.suppressNextChange]_vars

\* C28 witness: the second of two echoes has come, two messages waited as
\* the first came, and the editor holds another text than the echo's
C28_Witness ==
  /\ last.act = "echo" /\ last.before >= 2
  /\ ed.listening /\ ed.ready
  /\ \A i \in 1..Len(wire) : wire[i].code \in Codes
  /\ ed.content # last.code /\ ed.code # last.code
  /\ ~ed.suppressNextChange

\* C23: a change of the session id, the unmount of the editor and the loss
\* of its connection leave no debounce timer armed and the editor without
\* listeners of the session left; and an event of the session the page has
\* left, delivered after the change, mutates neither the state of the
\* session hook nor the editor.
C23_LeaveCancels ==
  [][/\ \A id \in SessionIds : Navigate(id) => ed'.debounce = NoTimer
     /\ (EditorUnmount \/ EditorUnlisten) =>
          (ed'.debounce = NoTimer /\ ~ed'.listening)
     /\ \A ev \in SessionEvents :
          InFlight(ev) => (room' = room /\ ed' = ed)]_vars

\* the sequence a is the beginning of the sequence b
IsPrefix(a, b) == Len(a) <= Len(b) /\ SubSeq(b, 1, Len(a)) = a

\* C31: the chat log of the session hook only grows at its end: after every
\* step the log it held before is the beginning of the log it holds, so no
\* stored message is removed, edited or moved.
C31_ChatAppendOnly ==
  [][IsPrefix(room.chatMessages, room'.chatMessages)]_vars
\* C32: an inbound 'code-sync' or 'code-change' handled by the editor's
\* listeners sends nothing and arms no timer: the wire and the debounce
\* timer are after the step what they were before it.
C32_InboundSendsNothing ==
  [][\A c \in RemoteCodes, from \in Origins :
       (ed.listening /\ (CodeSync(c) \/ CodeChange(c, from))) =>
          wire' = wire /\ ed'.debounce = ed.debounce]_vars
\* C33: a 'code-change' goes out only because of a local edit: a step that
\* puts a message on the wire is a local edit, or the firing of the debounce
\* timer that a local edit armed; the mount of the widget puts none.
C33_OnlyLocalEditsSend ==
  [][Len(wire') > Len(wire) =>
        \/ last'.act = "edit"
        \/ last'.act = "timeout" /\ last'.calls > 0]_vars
\* C34: a mounted useSocket instance reports connectionStatus 'connected'
\* only while the shared service's socket is connected; in particular after
\* one instance unmounted or disconnected no other instance reports it.
\* Stated for the runs in which the service has created one socket only, so
\* that no socket the service dropped is involved.
C34_ConnectedMeansConnected ==
  svc.nsock <= 1 =>
     \A h \in Hooks :
        (hooks[h].mounted /\ hooks[h].status = "connected") => Connected(svc)
\* C35: a mounted useSocket instance that is 'connecting' on the socket the
\* service holds while that socket is connected (it called connect on a
\* connected service) comes to report 'connected', unless it unmounts or the
\* service loses or drops that connection.
C35_ConnectingEnds ==
  \A h \in Hooks :
     (/\ hooks[h].mounted /\ hooks[h].status = "connecting"
      /\ Connected(svc) /\ hooks[h].socketRef = svc.socket)
        ~> \/ hooks[h].status = "connected"
           \/ ~hooks[h].mounted
           \/ ~Connected(svc)
\* C36: every 'leave-session' on the wire has a 'join-session' of the same
\* session before it, with no other 'leave-session' of that session between
\* the two; so the step in which the hook becomes connected puts no
\* 'leave-session' before its 'join-session'.
C36_LeaveFollowsJoin ==
  \A i \in 1..Len(wire) :
     wire[i].type = "leave-session" =>
        \E j \in 1..(i - 1) :
           /\ wire[j].type = "join-session"
           /\ wire[j].sessionId = wire[i].sessionId
           /\ \A k \in (j + 1)..(i - 1) :
                 ~(/\ wire[k].type = "leave-session"
                   /\ wire[k].sessionId = wire[i].sessionId)
\* C37: a sender of the service called while the service's socket is not
\* connected leaves the service as it was (nothing emitted, nothing kept for
\* later), and whenever a step adds a message to what a socket has sent,
\* that socket is the service's and is connected.
C37_NoSendUnconnected ==
  [][/\ \A m \in Senders : (Send(m) /\ ~Connected(svc)) => svc' = svc
     /\ \A s \in Sockets :
           Len(svc'.io[s].out) > Len(svc.io[s].out) =>
              s = svc'.socket /\ Connected(svc')]_vars

\* a sender was called while the service held a socket that was still
\* opening, and another while it held a connected one
C37_Witness ==
  /\ last.act = "send" /\ ~last.hit
  /\ svc.socket # NoSocket /\ svc.io[svc.socket].st = "connecting"
  /\ \E s \in Sockets : Len(svc.io[s].out) >= 2
\* C38: one local edit puts at most one 'code-change' on the wire: when the
\* debounce timer has fired after a single edit, the edit and the timer have
\* sent one message together, or none.
C38_OneMessagePerEdit ==
  (last.act = "timeout" /\ last.calls = 1) => last.sent <= 1
\* C39: right after an inbound 'code-change' that the listeners of the
\* session hook and of the editor have both handled, with the widget loaded,
\* the session hook's codeState is the text the editor holds.
C39_CopiesAgree ==
  (/\ last.act = "echo"
   /\ room.listening /\ ed.listening /\ ed.ready) =>
     room.codeState = ed.content
====
